---------------------------- MODULE Spec2Model ----------------------------
(***************************************************************************)
(* A model of map_chapters.py: the normalizer (normalize, extract_words),  *)
(* the fuzzy matcher (find_chapter_start) and the sequencer, finalizer and *)
(* write-back of main().                                                   *)
(*                                                                         *)
(* Strings are sequences of one-character strings.  Python's 0-based       *)
(* positions are kept: At(s, i) is s[i].                                   *)
(*                                                                         *)
(* Times are integers in units of 1/4000 s.  Input times are multiples of  *)
(* 1/32 s (125 units): such values are exact binary floats, so Python's    *)
(* round(x, 3) is round-to-nearest millisecond with exact ties going to    *)
(* the even millisecond, which Round3 computes.                            *)
(*                                                                         *)
(* A score matches / n is kept as the exact fraction num / den with        *)
(* num = 2 * matches (matches counts halves) and den = 2 * n; for n <= 15  *)
(* float division and comparison agree with the exact fraction.            *)
(***************************************************************************)
EXTENDS Integers, Sequences, FiniteSets, TLC

VARIABLES
    pc,                 \* position of the running program
    fs,                 \* which of book_dir, chapters.json, alignment_compact.json, meta.json exist
    chapters,           \* content of chapters.json, which main loads as chapters
    words,              \* alignment["words"]: entries <<word, start, end>>
    total_duration,     \* alignment["total_duration"]
    alignment_chapters, \* the "chapters" table of alignment_compact.json, None while it has none
    meta,               \* content of meta.json: has_chapters, chapter_count
    filtered,           \* main: filtered, as the 0-based positions in chapters of its entries
    fi,                 \* main: position of the filter loop in chapters
    ci,                 \* main: i of the matching loop
    mapped_chapters,    \* main: mapped_chapters
    search_from,        \* main: search_from
    chapter_words,      \* main: chapter_words
    word_idx,           \* main: word_idx
    score,              \* main: score
    report,             \* the latest line main printed about a chapter: kind and title
    exit_status,        \* the process's exit status, None while it runs
    call,               \* arguments of a direct call of normalize, extract_words or find_chapter_start
    ret                 \* the result of that call

vars == <<pc, fs, chapters, words, total_duration, alignment_chapters, meta,
          filtered, fi, ci, mapped_chapters, search_from, chapter_words,
          word_idx, score, report, exit_status, call, ret>>

\* an optional value: None, or Some(x)
None == <<>>

Some(x) == <<x>>

(***************************************************************************)
(* Program constants.                                                      *)
(***************************************************************************)
MIN_CHAPTER_TEXT_LEN == 200

MATCH_WINDOW == 15

MIN_MATCH_RATIO == [num |-> 1, den |-> 2]

SEARCH_LIMIT_FLOOR == 50000

(***************************************************************************)
(* Bounds of the model.                                                    *)
(***************************************************************************)
MaxStrLen == 4

MaxWords == 5

MaxChapters == 2

MaxScanWords == 4

MaxTarget == 3

MaxFrom == 1

\* words of the transcripts scanned over several windows for a 3-word target
MaxLongScan == 6

(***************************************************************************)
(* Python helpers.                                                         *)
(***************************************************************************)
Min(a, b) == IF a < b THEN a ELSE b

Max(a, b) == IF a > b THEN a ELSE b

At(s, i) == s[i + 1]

\* s[:k]
Prefix(s, k) == SubSeq(s, 1, Min(k, Len(s)))

\* s.startswith(p)
StartsWith(s, p) == Len(p) <= Len(s) /\ SubSeq(s, 1, Len(p)) = p

UpperChars == <<"A","B","C","D","E","F","G","H","I","J","K","L","M",
                "N","O","P","Q","R","S","T","U","V","W","X","Y","Z">>

LowerChars == <<"a","b","c","d","e","f","g","h","i","j","k","l","m",
                "n","o","p","q","r","s","t","u","v","w","x","y","z">>

DigitChars == <<"0","1","2","3","4","5","6","7","8","9">>

Range(s) == {s[k] : k \in 1..Len(s)}

\* the characters the pattern [^a-z0-9] keeps
AlnumChars == Range(LowerChars) \cup Range(DigitChars)

\* the characters str.split() splits on
SpaceChars == {" ", "\t", "\n"}

LowerOf == [c \in Range(UpperChars) |->
               LowerChars[CHOOSE k \in 1..Len(UpperChars) : UpperChars[k] = c]]

\* str.lower() on one character
LowerChar(c) == IF c \in DOMAIN LowerOf THEN LowerOf[c] ELSE c

\* word.lower()
Lower(w) == [k \in 1..Len(w) |-> LowerChar(w[k])]

IsAlnum(c) == c \in AlnumChars

\* re.sub(r"[^a-z0-9]", "", s)
StripNonAlnum(s) == SelectSeq(s, IsAlnum)

\* a substitution that stops after the first replacement (count=1)
StripFirstNonAlnum(s) ==
    IF \A k \in 1..Len(s) : IsAlnum(s[k]) THEN s
    ELSE LET k == CHOOSE k \in 1..Len(s) :
                    ~IsAlnum(s[k]) /\ \A m \in 1..(k - 1) : IsAlnum(s[m])
         IN  SubSeq(s, 1, k - 1) \o SubSeq(s, k + 1, Len(s))

normalize_StripOnce(word) == StripFirstNonAlnum(Lower(word))

normalize(word) == StripNonAlnum(Lower(word))

\* the k-th smallest element of a set of integers
Nth(S, k) == CHOOSE i \in S : Cardinality({j \in S : j < i}) = k - 1

\* text.split(): the maximal runs of non-whitespace characters, in order
split(text) ==
    LET n == Len(text)
        starts == {i \in 1..n : text[i] \notin SpaceChars
                                /\ (i = 1 \/ text[i - 1] \in SpaceChars)}
        ends == {i \in 1..n : text[i] \notin SpaceChars
                              /\ (i = n \/ text[i + 1] \in SpaceChars)}
    IN  [k \in 1..Cardinality(starts) |-> SubSeq(text, Nth(starts, k), Nth(ends, k))]

NonEmpty(w) == w # <<>>

extract_words(text) ==
    LET pieces == split(text)
    IN  SelectSeq([k \in 1..Len(pieces) |-> normalize(pieces[k])], NonEmpty)

\* round(x, 3) for x in units of 1/4000 s: the nearest millisecond, an exact
\* tie going to the even one
Round3(x) ==
    LET q == x \div 4
        r == x % 4
    IN  IF r < 2 THEN 4 * q
        ELSE IF r > 2 THEN 4 * (q + 1)
        ELSE IF q % 2 = 0 THEN 4 * q ELSE 4 * (q + 1)

(***************************************************************************)
(* Scores as exact fractions.                                              *)
(***************************************************************************)
Score(num, den) == [num |-> num, den |-> den]

ScoreZero == Score(0, 1)

\* a later window of the same score taking the place of the best one
ScoreGT_OrEqual(a, b) == a.num * b.den >= b.num * a.den

\* line 79
ScoreGT(a, b) == a.num * b.den > b.num * a.den

ScoreGE(a, b) == a.num * b.den >= b.num * a.den

(***************************************************************************)
(* find_chapter_start.                                                     *)
(***************************************************************************)
\* a near miss counted as a full match
PairCredit_FullPartial(tw, cw) ==
    IF tw = cw THEN 2
    ELSE IF Len(tw) > 2 /\ Len(cw) > 2
            /\ (StartsWith(tw, Prefix(cw, 3)) \/ StartsWith(cw, Prefix(tw, 3)))
         THEN 2
         ELSE 0

\* the credit of one aligned pair, in halves: lines 72-76
PairCredit(tw, cw) ==
    IF tw = cw THEN 2
    ELSE IF Len(tw) > 2 /\ Len(cw) > 2
            /\ (StartsWith(tw, Prefix(cw, 3)) \/ StartsWith(cw, Prefix(tw, 3)))
         THEN 1
         ELSE 0

\* matches of the window at i, in halves: the loop of lines 68-76
RECURSIVE WindowMatches(_, _, _, _, _)
WindowMatches(cwords, twords, i, n, j) ==
    IF j >= n THEN 0
    ELSE PairCredit(normalize(At(At(twords, i + j), 0)), At(cwords, j))
         + WindowMatches(cwords, twords, i, n, j + 1)

WindowScore(cwords, twords, i, n) ==
    Score(WindowMatches(cwords, twords, i, n, 0), 2 * n)

\* the loop of lines 67-81 from i on, with the best so far
RECURSIVE ScanFrom(_, _, _, _, _, _, _)
ScanFrom(cwords, twords, n, i, search_end, best_idx, best_score) ==
    IF i >= search_end THEN <<best_idx, best_score>>
    ELSE LET sc == WindowScore(cwords, twords, i, n)
         IN  IF ScoreGT(sc, best_score)
             THEN ScanFrom(cwords, twords, n, i + 1, search_end, i, sc)
             ELSE ScanFrom(cwords, twords, n, i + 1, search_end,
                           best_idx, best_score)

\* the scan taking in the window on the last n words
SearchEnd_LastWindow(twords, n, sfrom, slimit) ==
    IF slimit # None
    THEN Min(Len(twords) - n + 1, sfrom + slimit[1])
    ELSE Len(twords) - n + 1

\* search_end of lines 60-62
SearchEnd(twords, n, sfrom, slimit) ==
    IF slimit # None
    THEN Min(Len(twords) - n, sfrom + slimit[1])
    ELSE Len(twords) - n

\* the scan run on a target of fewer than 3 words as well
find_chapter_start_NoMinimum(cwords, twords, sfrom, slimit) ==
    LET n == Min(Len(cwords), MATCH_WINDOW)
    IN  ScanFrom(cwords, twords, n, sfrom, SearchEnd(twords, n, sfrom, slimit),
                 -1, ScoreZero)

\* lines 42-83
find_chapter_start(cwords, twords, sfrom, slimit) ==
    LET n == Min(Len(cwords), MATCH_WINDOW)
    IN  IF n < 3 THEN <<-1, ScoreZero>>
        ELSE ScanFrom(cwords, twords, n, sfrom,
                      SearchEnd(twords, n, sfrom, slimit),
                      -1, ScoreZero)

(***************************************************************************)
(* Inputs.                                                                 *)
(***************************************************************************)
Ticks(k) == 125 * k

\* start time of the word at position i: non-decreasing, with repeats, and
\* not all whole milliseconds
WordStart(i) == Ticks(3 * ((i + 1) \div 2))

MkWords(raws) ==
    [k \in 1..Len(raws) |-> <<raws[k], WordStart(k - 1), WordStart(k - 1) + Ticks(1)>>]

SeqsUpTo(S, maxlen) == UNION {[1..k -> S] : k \in 0..maxlen}

\* words as the transcriber writes them
RawAlps == <<"A","l","p","s">>

RawAlp == <<"a","l","p",",">>

RawGo == <<"G","o","!">>

RawWords == {RawAlps, RawAlp, RawGo}

TokAlps == <<"a","l","p","s">>

TokAlp == <<"a","l","p">>

TokGo == <<"g","o">>

Tokens == {TokAlps, TokAlp, TokGo}

\* chapter openings: 3 tokens, 4 tokens, and 2 tokens around a piece of punctuation
OpenA == <<"A","l","p","s"," ","a","l","p",","," ","g","o">>

OpenB == <<"a","l","p"," ","G","o","\n","a","l","p","s"," ","G","O",".">>

OpenC == <<"G","o"," ","-","-"," ","a","l","p","s">>

\* 4 tokens around a piece of punctuation
OpenD == <<"g","o"," ","G","o"," ","-","-"," ","a","l","p"," ","g","o">>

\* text followed by a blank and full stops up to a length of total
PadTo(text, total) ==
    text \o <<" ">> \o [k \in 1..(total - Len(text) - 1) |-> "."]

\* a chapter that can match, one of too few words, and one that is one
\* character too short
TextChoices ==
    { PadTo(OpenA, MIN_CHAPTER_TEXT_LEN), PadTo(OpenC, MIN_CHAPTER_TEXT_LEN),
      PadTo(OpenA, MIN_CHAPTER_TEXT_LEN - 1) }

Titles == <<"ch1", "ch2", "ch3", "ch4", "ch5">>

MkChapters(texts) == [k \in 1..Len(texts) |-> [title |-> Titles[k], text |-> texts[k]]]

\* an audio that ends with its last word
AudioEnd(ws) == IF ws = <<>> THEN 0 ELSE ws[Len(ws)][3]

AllPresent == [book_dir |-> TRUE, chapters_file |-> TRUE, alignment_file |-> TRUE,
               meta_file |-> TRUE]

FsChoices ==
    { AllPresent,
      [AllPresent EXCEPT !.meta_file = FALSE],
      [AllPresent EXCEPT !.book_dir = FALSE],
      [AllPresent EXCEPT !.chapters_file = FALSE],
      [AllPresent EXCEPT !.alignment_file = FALSE] }

Join(a, b) == a \o <<" ">> \o b

\* a 16-word opening whose first 15 words are the anchor
Open15 ==
    LET t == Join(Join(TokAlps, TokAlp), TokGo)
    IN  Join(Join(Join(Join(Join(t, t), t), t), t), TokAlps)

\* the same with the 8th word replaced
Open15Low ==
    LET t == Join(Join(TokAlps, TokAlp), TokGo)
        u == Join(Join(TokAlps, TokGo), TokGo)
    IN  Join(Join(Join(Join(Join(t, t), u), t), t), TokAlps)

\* 17 words: window 0 holds words 1-7 of Open15, a near miss of word 8,
\* and then nothing of it
Raw17 ==
    <<RawAlps, RawAlp, RawGo, RawAlps, RawAlp, RawGo, RawAlps, RawAlps,
      RawAlps, RawGo, RawGo, RawAlps, RawGo, RawGo, RawAlps, RawGo, RawGo>>

\* hand-picked runs: a 15-word anchor scoring 7 of 15 and then 7.5 of 15;
\* three matches and a skipped chapter; two matches in an audio cut short
\* before the second; 2 of 4; no match; a chapter too short, a match at 0,
\* 1.5 of 4 at 3, a chapter of too few words and a match at 3
Scenarios ==
    { [chapters |-> MkChapters(<<PadTo(Open15Low, MIN_CHAPTER_TEXT_LEN),
                                 PadTo(Open15, MIN_CHAPTER_TEXT_LEN)>>),
       words |-> MkWords(Raw17), total_duration |-> Ticks(30)],
      [chapters |-> MkChapters(<<PadTo(OpenA, MIN_CHAPTER_TEXT_LEN),
                                 PadTo(OpenC, MIN_CHAPTER_TEXT_LEN),
                                 PadTo(OpenA, MIN_CHAPTER_TEXT_LEN),
                                 PadTo(OpenA, MIN_CHAPTER_TEXT_LEN)>>),
       words |-> MkWords(<<RawAlps, RawAlp, RawGo, RawAlps, RawAlp, RawGo,
                           RawAlps, RawAlp, RawGo, RawGo>>),
       total_duration |-> Ticks(9)],
      [chapters |-> MkChapters(<<PadTo(OpenA, MIN_CHAPTER_TEXT_LEN),
                                 PadTo(OpenA, MIN_CHAPTER_TEXT_LEN)>>),
       words |-> MkWords(<<RawAlps, RawAlp, RawAlp, RawAlp, RawGo>>),
       total_duration |-> Ticks(2)],
      [chapters |-> MkChapters(<<PadTo(OpenB, MIN_CHAPTER_TEXT_LEN)>>),
       words |-> MkWords(<<RawAlp, RawGo, RawGo, RawAlps, RawGo>>),
       total_duration |-> Ticks(19)],
      [chapters |-> MkChapters(<<PadTo(OpenB, MIN_CHAPTER_TEXT_LEN)>>),
       words |-> MkWords(<<RawGo, RawGo, RawGo, RawGo, RawGo>>),
       total_duration |-> Ticks(19)],
      [chapters |-> MkChapters(<<PadTo(OpenA, MIN_CHAPTER_TEXT_LEN - 1),
                                 PadTo(OpenA, MIN_CHAPTER_TEXT_LEN),
                                 PadTo(OpenD, MIN_CHAPTER_TEXT_LEN),
                                 PadTo(OpenC, MIN_CHAPTER_TEXT_LEN),
                                 PadTo(OpenA, MIN_CHAPTER_TEXT_LEN)>>),
       words |-> MkWords(<<RawAlps, RawAlp, RawAlps, RawAlps, RawAlp, RawAlps,
                           RawGo, RawAlps>>),
       total_duration |-> Ticks(14)] }

\* strings of the characters: upper case, lower case, digit, punctuation, blank
Alphabet == {"A", "a", "b", "7", "!", " "}

Strings == SeqsUpTo(Alphabet, MaxStrLen)

\* the words "in the beginning there was light"
RawLight ==
    << <<"i","n">>, <<"t","h","e">>, <<"b","e","g","i","n","n","i","n","g">>,
       <<"t","h","e","r","e">>, <<"w","a","s">>, <<"l","i","g","h","t">> >>

\* the words "teh bigining their"
TokMisspelled ==
    << <<"t","e","h">>, <<"b","i","g","i","n","i","n","g">>, <<"t","h","e","i","r">> >>

\* the words "Go! Alps Go! Go! Alps Go! Go! Go!": against "alp go go" the
\* windows at 1 and 4 score 2.5 of 3, the others less
RawTied == <<RawGo, RawAlps, RawGo, RawGo, RawAlps, RawGo, RawGo, RawGo>>

\* the targets "alp go go" and "alps alp go"
LongScanTargets == { <<TokAlp, TokGo, TokGo>>, <<TokAlps, TokAlp, TokGo>> }

MatcherCall(cwords, twords, sfrom, slimit) ==
    [chapter_words |-> cwords, transcribed_words |-> twords,
     search_from |-> sfrom, search_limit |-> slimit]

\* hand-picked calls: the misspelled and the verbatim anchor of "in the
\* beginning", and the 15-word anchors
MatcherScenarios ==
    { MatcherCall(TokMisspelled, MkWords(RawLight), 0, None),
      MatcherCall(Prefix(RawLight, 3), MkWords(RawLight), 0, None),
      MatcherCall(extract_words(Open15), MkWords(Raw17), 0, None),
      MatcherCall(extract_words(Open15Low), MkWords(Raw17), 0, None),
      MatcherCall(<<TokAlp, TokGo, TokGo>>, MkWords(RawTied), 0, None) }

(***************************************************************************)
(* main().                                                                 *)
(***************************************************************************)
NoCall == <<>>

\* meta.json as preprocess.py leaves it
MetaFor(files, chs) ==
    IF files.meta_file
    THEN Some([has_chapters |-> Len(chs) > 0, chapter_count |-> None])
    ELSE None

\* every chapter list and transcript within the bounds with all files in
\* place, and the hand-picked runs with each choice of files
Init ==
    /\ \/ \E t \in SeqsUpTo(TextChoices, MaxChapters), r \in SeqsUpTo(RawWords, MaxWords) :
            /\ fs = AllPresent
            /\ chapters = MkChapters(t)
            /\ words = MkWords(r)
            /\ total_duration = AudioEnd(MkWords(r))
            /\ meta = MetaFor(AllPresent, t)
       \/ \E f \in FsChoices, s \in Scenarios :
            /\ fs = f
            /\ chapters = s.chapters
            /\ words = s.words
            /\ total_duration = s.total_duration
            /\ meta = MetaFor(f, s.chapters)
    /\ pc = "start"
    /\ alignment_chapters = None
    /\ filtered = <<>>
    /\ fi = 0
    /\ ci = 0
    /\ mapped_chapters = <<>>
    /\ search_from = 0
    /\ chapter_words = <<>>
    /\ word_idx = -1
    /\ score = ScoreZero
    /\ report = [kind |-> "none", title |-> ""]
    /\ exit_status = None
    /\ call = NoCall
    /\ ret = NoCall

\* what main() never writes
inputs == <<fs, chapters, words, total_duration, call, ret>>

\* the locals of the matching loop
locals == <<chapter_words, word_idx, score>>

Exit(status) ==
    /\ pc' = "exited"
    /\ exit_status' = Some(status)

\* lines 97-116: a missing directory or input file ends the run
LoadFails ==
    /\ pc = "start"
    /\ ~(fs.book_dir /\ fs.chapters_file /\ fs.alignment_file)
    /\ Exit(1)
    /\ UNCHANGED <<inputs, locals, alignment_chapters, meta, filtered, fi, ci,
                   mapped_chapters, search_from, report>>

\* lines 97-132: the inputs are loaded and the filter loop begins
Load ==
    /\ pc = "start"
    /\ fs.book_dir /\ fs.chapters_file /\ fs.alignment_file
    /\ pc' = "filter"
    /\ filtered' = <<>>
    /\ fi' = 0
    /\ UNCHANGED <<inputs, locals, alignment_chapters, meta, ci, mapped_chapters,
                   search_from, report, exit_status>>

\* line 135
LongEnough(text) == Len(text) >= MIN_CHAPTER_TEXT_LEN

\* lines 133-136: a chapter of at least MIN_CHAPTER_TEXT_LEN characters is kept
FilterKeep ==
    /\ pc = "filter"
    /\ fi < Len(chapters)
    /\ LongEnough(At(chapters, fi).text)
    /\ filtered' = Append(filtered, fi)
    /\ fi' = fi + 1
    /\ UNCHANGED <<inputs, locals, pc, alignment_chapters, meta, ci, mapped_chapters,
                   search_from, report, exit_status>>

\* lines 133-138: a shorter one is dropped
FilterDrop ==
    /\ pc = "filter"
    /\ fi < Len(chapters)
    /\ ~LongEnough(At(chapters, fi).text)
    /\ fi' = fi + 1
    /\ report' = [kind |-> "too short", title |-> At(chapters, fi).title]
    /\ UNCHANGED <<inputs, locals, pc, alignment_chapters, meta, filtered, ci,
                   mapped_chapters, search_from, exit_status>>

\* lines 140-145
BeginMatching ==
    /\ pc = "filter"
    /\ fi = Len(chapters)
    /\ pc' = "match"
    /\ mapped_chapters' = <<>>
    /\ search_from' = 0
    /\ ci' = 0
    /\ UNCHANGED <<inputs, locals, alignment_chapters, meta, filtered, fi, report,
                   exit_status>>

\* ch of the matching loop
Ch == At(chapters, At(filtered, ci))

\* lines 147-148
Tokenize ==
    /\ pc = "match"
    /\ ci < Len(filtered)
    /\ chapter_words' = extract_words(Ch.text)
    /\ pc' = "tokenized"
    /\ UNCHANGED <<inputs, word_idx, score, alignment_chapters, meta, filtered, fi, ci,
                   mapped_chapters, search_from, report, exit_status>>

\* lines 149-151
SkipChapter ==
    /\ pc = "tokenized"
    /\ Len(chapter_words) < 3
    /\ report' = [kind |-> "too few words", title |-> Ch.title]
    /\ ci' = ci + 1
    /\ pc' = "match"
    /\ UNCHANGED <<inputs, locals, alignment_chapters, meta, filtered, fi,
                   mapped_chapters, search_from, exit_status>>

\* lines 155-156, for a transcript of nwords words and the floor sfrom
SearchLimitOf(nwords, sfrom) == Max(nwords - sfrom, SEARCH_LIMIT_FLOOR)

\* a limit of one window
SearchLimit_One == Some(1)

\* lines 155-156
SearchLimit == Some(SearchLimitOf(Len(words), search_from))

\* lines 149, 153-158
CallMatcher ==
    /\ pc = "tokenized"
    /\ Len(chapter_words) >= 3
    /\ LET result == find_chapter_start(chapter_words, words, search_from, SearchLimit)
       IN  /\ word_idx' = result[1]
           /\ score' = result[2]
    /\ pc' = "matched"
    /\ UNCHANGED <<inputs, chapter_words, alignment_chapters, meta, filtered, fi, ci,
                   mapped_chapters, search_from, report, exit_status>>

Accepts_Strict(idx, sc) == idx >= 0 /\ ScoreGT(sc, MIN_MATCH_RATIO)

\* line 160
Accepts(idx, sc) == idx >= 0 /\ ScoreGE(sc, MIN_MATCH_RATIO)

NextFloor_Same(idx) == idx

\* line 173
NextFloor(idx) == idx + 1

\* lines 160-173
AcceptChapter ==
    /\ pc = "matched"
    /\ Accepts(word_idx, score)
    /\ LET start_time == At(At(words, word_idx), 1)
       IN  mapped_chapters' = Append(mapped_chapters,
               [title |-> Ch.title,
                start_time |-> Round3(start_time),
                start_word_index |-> word_idx])
    /\ report' = [kind |-> "mapped", title |-> Ch.title]
    /\ search_from' = NextFloor(word_idx)
    /\ ci' = ci + 1
    /\ pc' = "match"
    /\ UNCHANGED <<inputs, locals, alignment_chapters, meta, filtered, fi, exit_status>>

\* the floor moved past a rejected match
RejectChapter_Advance ==
    /\ pc = "matched"
    /\ ~Accepts(word_idx, score)
    /\ report' = [kind |-> "no match", title |-> Ch.title]
    /\ search_from' = IF word_idx >= 0 THEN word_idx + 1 ELSE search_from
    /\ ci' = ci + 1
    /\ pc' = "match"
    /\ UNCHANGED <<inputs, locals, alignment_chapters, meta, filtered, fi,
                   mapped_chapters, exit_status>>

\* lines 160, 174-178
RejectChapter ==
    /\ pc = "matched"
    /\ ~Accepts(word_idx, score)
    /\ report' = [kind |-> "no match", title |-> Ch.title]
    /\ ci' = ci + 1
    /\ pc' = "match"
    /\ UNCHANGED <<inputs, locals, alignment_chapters, meta, filtered, fi,
                   mapped_chapters, search_from, exit_status>>

\* the run going on without any chapter
NoChaptersMapped_Continue ==
    /\ pc = "match"
    /\ ci = Len(filtered)
    /\ mapped_chapters = <<>>
    /\ pc' = "write"
    /\ UNCHANGED <<inputs, locals, alignment_chapters, meta, filtered, fi, ci,
                   mapped_chapters, search_from, report, exit_status>>

\* lines 180-184
NoChaptersMapped ==
    /\ pc = "match"
    /\ ci = Len(filtered)
    /\ mapped_chapters = <<>>
    /\ Exit(1)
    /\ UNCHANGED <<inputs, locals, alignment_chapters, meta, filtered, fi, ci,
                   mapped_chapters, search_from, report>>

LastEndTime_Unrounded == total_duration

\* line 192
LastEndTime == Round3(total_duration)

\* the end time taken from the entry before
Finalized_Prev(spans, i) ==
    IF i < Len(spans)
    THEN [title |-> spans[i].title,
          start_time |-> spans[i].start_time,
          start_word_index |-> spans[i].start_word_index,
          end_time |-> spans[IF i = 1 THEN Len(spans) ELSE i - 1].start_time,
          end_word_index |-> spans[i + 1].start_word_index]
    ELSE [title |-> spans[i].title,
          start_time |-> spans[i].start_time,
          start_word_index |-> spans[i].start_word_index,
          end_time |-> LastEndTime,
          end_word_index |-> Len(words)]

\* the last span ending on the last word
Finalized_ShortEnd(spans, i) ==
    IF i < Len(spans)
    THEN [title |-> spans[i].title,
          start_time |-> spans[i].start_time,
          start_word_index |-> spans[i].start_word_index,
          end_time |-> spans[i + 1].start_time,
          end_word_index |-> spans[i + 1].start_word_index]
    ELSE [title |-> spans[i].title,
          start_time |-> spans[i].start_time,
          start_word_index |-> spans[i].start_word_index,
          end_time |-> LastEndTime,
          end_word_index |-> Len(words) - 1]

\* lines 187-193 for the entry at 1-based position i of spans
Finalized(spans, i) ==
    IF i < Len(spans)
    THEN [title |-> spans[i].title,
          start_time |-> spans[i].start_time,
          start_word_index |-> spans[i].start_word_index,
          end_time |-> spans[i + 1].start_time,
          end_word_index |-> spans[i + 1].start_word_index]
    ELSE [title |-> spans[i].title,
          start_time |-> spans[i].start_time,
          start_word_index |-> spans[i].start_word_index,
          end_time |-> LastEndTime,
          end_word_index |-> Len(words)]

\* lines 180-193
Finalize ==
    /\ pc = "match"
    /\ ci = Len(filtered)
    /\ mapped_chapters # <<>>
    /\ mapped_chapters' = [i \in 1..Len(mapped_chapters) |-> Finalized(mapped_chapters, i)]
    /\ pc' = "write"
    /\ UNCHANGED <<inputs, locals, alignment_chapters, meta, filtered, fi, ci,
                   search_from, report, exit_status>>

\* lines 195-199
WriteBack ==
    /\ pc = "write"
    /\ alignment_chapters' = Some(mapped_chapters)
    /\ pc' = "meta"
    /\ UNCHANGED <<inputs, locals, meta, filtered, fi, ci, mapped_chapters,
                   search_from, report, exit_status>>

\* lines 205-213, and the normal end of the run
UpdateMeta ==
    /\ pc = "meta"
    /\ fs.meta_file
    /\ meta' = Some([meta[1] EXCEPT !.has_chapters = TRUE,
                                    !.chapter_count = Some(Len(mapped_chapters))])
    /\ Exit(0)
    /\ UNCHANGED <<inputs, locals, alignment_chapters, filtered, fi, ci,
                   mapped_chapters, search_from, report>>

\* lines 205-206, and the normal end of the run
NoMeta ==
    /\ pc = "meta"
    /\ ~fs.meta_file
    /\ Exit(0)
    /\ UNCHANGED <<inputs, locals, alignment_chapters, meta, filtered, fi, ci,
                   mapped_chapters, search_from, report>>

Next ==
    \/ LoadFails
    \/ Load
    \/ FilterKeep
    \/ FilterDrop
    \/ BeginMatching
    \/ Tokenize
    \/ SkipChapter
    \/ CallMatcher
    \/ AcceptChapter
    \/ RejectChapter
    \/ NoChaptersMapped
    \/ Finalize
    \/ WriteBack
    \/ UpdateMeta
    \/ NoMeta

Spec == Init /\ [][Next]_vars

(***************************************************************************)
(* Direct calls of normalize, extract_words and find_chapter_start.        *)
(***************************************************************************)
\* main() is not running
MainIdle ==
    /\ fs = AllPresent
    /\ chapters = <<>>
    /\ words = <<>>
    /\ total_duration = 0
    /\ meta = None
    /\ alignment_chapters = None
    /\ filtered = <<>>
    /\ fi = 0
    /\ ci = 0
    /\ mapped_chapters = <<>>
    /\ search_from = 0
    /\ chapter_words = <<>>
    /\ word_idx = -1
    /\ score = ScoreZero
    /\ report = [kind |-> "none", title |-> ""]
    /\ exit_status = None

main_vars == <<fs, chapters, words, total_duration, meta, alignment_chapters,
               filtered, fi, ci, mapped_chapters, search_from, chapter_words,
               word_idx, score, report, exit_status>>

InitNorm ==
    /\ MainIdle
    /\ pc = "norm:ready"
    /\ \E w \in Strings : call = [word |-> w]
    /\ ret = NoCall

\* normalize(word)
NormalizeCall ==
    /\ pc = "norm:ready"
    /\ ret' = [once |-> normalize(call.word)]
    /\ pc' = "norm:once"
    /\ UNCHANGED <<main_vars, call>>

\* normalize applied to its own result
NormalizeAgain ==
    /\ pc = "norm:once"
    /\ ret' = [once |-> ret.once, twice |-> normalize(ret.once)]
    /\ pc' = "norm:twice"
    /\ UNCHANGED <<main_vars, call>>

\* extract_words(text)
ExtractWordsCall ==
    /\ pc = "norm:ready"
    /\ ret' = extract_words(call.word)
    /\ pc' = "extract:done"
    /\ UNCHANGED <<main_vars, call>>

NextNorm ==
    \/ NormalizeCall
    \/ NormalizeAgain
    \/ ExtractWordsCall

SpecNorm == InitNorm /\ [][NextNorm]_vars

InitMatch ==
    /\ MainIdle
    /\ pc = "find:ready"
    /\ \/ \E c \in SeqsUpTo(Tokens, MaxTarget), r \in SeqsUpTo(RawWords, MaxScanWords),
               f \in 0..MaxFrom, l \in {None, Some(1)} :
                 call = MatcherCall(c, MkWords(r), f, l)
       \/ \E c \in LongScanTargets, r \in [1..MaxLongScan -> RawWords] :
                 call = MatcherCall(c, MkWords(r), 0, None)
       \/ call \in MatcherScenarios
    /\ ret = NoCall

\* find_chapter_start(chapter_words, transcribed_words, search_from, search_limit)
FindChapterStartCall ==
    /\ pc = "find:ready"
    /\ ret' = find_chapter_start(call.chapter_words, call.transcribed_words,
                                 call.search_from, call.search_limit)
    /\ pc' = "find:done"
    /\ UNCHANGED <<main_vars, call>>

NextMatch == FindChapterStartCall

SpecMatch == InitMatch /\ [][NextMatch]_vars

(***************************************************************************)
(* The claims.                                                             *)
(***************************************************************************)
\* the spans carry their end fields
Finalised ==
    \/ pc \in {"write", "meta"}
    \/ pc = "exited" /\ exit_status = Some(0)

\* C1: the committed spans have strictly increasing start indices, so two
\* chapters are never given the same transcript position
C1_StartsIncrease ==
    \A i \in 1..(Len(mapped_chapters) - 1) :
        mapped_chapters[i].start_word_index < mapped_chapters[i + 1].start_word_index

\* two chapters with the same text were both matched
C1_Witness ==
    /\ pc = "exited"
    /\ Len(mapped_chapters) >= 2
    /\ \E i, j \in 1..Len(chapters) :
         /\ i < j
         /\ chapters[i].text = chapters[j].text
         /\ mapped_chapters[1].title = chapters[i].title
         /\ mapped_chapters[2].title = chapters[j].title

\* the first n words of the target stand at position p of the transcript
AnchorAt(cwords, twords, n, p) ==
    \A j \in 0..(n - 1) : normalize(At(At(twords, p + j), 0)) = At(cwords, j)

\* C2: a target of at least 3 tokens whose anchor stands verbatim at p and at
\* no earlier position is found at p with score 1.0 when the search starts
\* at 0 without a limit, the last possible p = len(transcript) - n included
C2_ExactMatchFound ==
    (/\ pc = "find:done"
     /\ call.search_from = 0
     /\ call.search_limit = None
     /\ Len(call.chapter_words) >= 3)
    => LET n == Min(Len(call.chapter_words), MATCH_WINDOW)
       IN  \A p \in 0..(Len(call.transcribed_words) - n) :
             (/\ AnchorAt(call.chapter_words, call.transcribed_words, n, p)
              /\ \A q \in 0..(p - 1) :
                   ~AnchorAt(call.chapter_words, call.transcribed_words, n, q))
             => ret = <<p, Score(2 * n, 2 * n)>>

\* C3: the finalized spans' index ranges are adjacent and end at len(words):
\* each span but the last ends where the next one starts, the last one ends
\* at the transcript's length
C3_IndexCoverage ==
    Finalised =>
        /\ mapped_chapters # <<>>
        /\ \A i \in 1..(Len(mapped_chapters) - 1) :
             mapped_chapters[i].end_word_index = mapped_chapters[i + 1].start_word_index
        /\ mapped_chapters[Len(mapped_chapters)].end_word_index = Len(words)
        /\ alignment_chapters \in {None, Some(mapped_chapters)}

\* a table of two spans or more was written
C3_Witness ==
    /\ alignment_chapters # None
    /\ Len(alignment_chapters[1]) >= 2
    /\ Len(alignment_chapters[1]) < Len(chapters)

\* C4 as stated: each span but the last ends at the next one's start time,
\* and the last span ends at total_duration and at the transcript's length
C4_EndsAtTotalDuration ==
    Finalised =>
        /\ \A i \in 1..(Len(mapped_chapters) - 1) :
             mapped_chapters[i].end_time = mapped_chapters[i + 1].start_time
        /\ mapped_chapters[Len(mapped_chapters)].end_time = total_duration
        /\ mapped_chapters[Len(mapped_chapters)].end_word_index = Len(words)

\* C4 amended: each span but the last ends at the next one's start time, and
\* the last span ends at total_duration rounded to the millisecond (a whole
\* number of milliseconds at most half a millisecond from it) and at the
\* transcript's length
C4_EndsAtRoundedDuration ==
    Finalised =>
        /\ \A i \in 1..(Len(mapped_chapters) - 1) :
             mapped_chapters[i].end_time = mapped_chapters[i + 1].start_time
        /\ LET end_time == mapped_chapters[Len(mapped_chapters)].end_time
           IN  /\ end_time % 4 = 0
               /\ end_time - total_duration \in -2..2
        /\ mapped_chapters[Len(mapped_chapters)].end_word_index = Len(words)

\* the last span was accepted between candidates that were not, in an audio
\* whose duration is no whole number of milliseconds
C4_Witness ==
    /\ Finalised
    /\ total_duration % 4 # 0
    /\ Len(chapters) >= 2
    /\ Len(mapped_chapters) = 1
    /\ mapped_chapters[1].title = chapters[2].title

\* C5 as stated: every finalized span has start_time <= end_time <= total_duration
C5_WithinDuration ==
    Finalised =>
        \A i \in 1..Len(mapped_chapters) :
            /\ mapped_chapters[i].start_time <= mapped_chapters[i].end_time
            /\ mapped_chapters[i].end_time <= total_duration

\* the start time of the first word of the last span
LastSpanWordStart ==
    At(At(words, mapped_chapters[Len(mapped_chapters)].start_word_index), 1)

\* C5 amended: every finalized span but the last has start_time <= end_time;
\* when total_duration is not before the start of the last span's first word,
\* every span has start_time <= end_time <= the last span's end_time, which is
\* total_duration rounded to the millisecond and so at most half a
\* millisecond after total_duration
C5_WithinRoundedDuration ==
    Finalised =>
        /\ \A i \in 1..(Len(mapped_chapters) - 1) :
             mapped_chapters[i].start_time <= mapped_chapters[i].end_time
        /\ total_duration >= LastSpanWordStart =>
             /\ \A i \in 1..Len(mapped_chapters) :
                  /\ mapped_chapters[i].start_time <= mapped_chapters[i].end_time
                  /\ mapped_chapters[i].end_time
                       <= mapped_chapters[Len(mapped_chapters)].end_time
             /\ mapped_chapters[Len(mapped_chapters)].end_time <= total_duration + 2

\* two spans with different start times in an audio that ends after its words
C5_Witness ==
    /\ Finalised
    /\ Len(mapped_chapters) >= 2
    /\ total_duration >= LastSpanWordStart
    /\ mapped_chapters[1].start_time < mapped_chapters[2].start_time
    /\ mapped_chapters[Len(mapped_chapters)].end_time > total_duration

\* the matcher's answer is a position whose window has at least n/2 matches
\* (score.num counts half matches, score.den is 2n)
AtThreshold == word_idx >= 0 /\ 2 * score.num >= score.den

\* C6: the sequencer commits a span for a matcher result exactly when the
\* position is >= 0 and the score is >= 0.5: a best window of exactly n/2
\* matches is accepted, one of (n-1)/2 or less commits nothing
C6_ThresholdBoundary ==
    [][pc = "matched" =>
         /\ AtThreshold =>
              /\ Len(mapped_chapters') = Len(mapped_chapters) + 1
              /\ mapped_chapters'[Len(mapped_chapters')].start_word_index = word_idx
              /\ SubSeq(mapped_chapters', 1, Len(mapped_chapters)) = mapped_chapters
         /\ ~AtThreshold => mapped_chapters' = mapped_chapters]_vars

\* a window of 7.5 matches of 15 was accepted
C6_Witness ==
    /\ pc = "match"
    /\ report.kind = "mapped"
    /\ score = Score(15, 30)
    /\ mapped_chapters[Len(mapped_chapters)].start_word_index = word_idx

\* the call of the misspelled-anchor scenario has returned
MisspelledCall ==
    /\ pc = "find:done"
    /\ call = MatcherCall(TokMisspelled, MkWords(RawLight), 0, None)

\* C7 as stated: the misspelled anchor is reported at position 0 with a
\* score of at least 0.5 and is accepted
C7_MisspelledAccepted ==
    MisspelledCall =>
        /\ ret[1] = 0
        /\ 2 * ret[2].num >= ret[2].den

\* C7 amended: the misspelled anchor is reported at position 1 with score
\* 0.5 / 3, the only credit being "there" against "their", and is not accepted
C7_MisspelledRejected ==
    MisspelledCall =>
        /\ ret[1] = 1
        /\ ret[2].num = 1 /\ ret[2].den = 6
        /\ 2 * ret[2].num < ret[2].den

C7_Witness == MisspelledCall /\ ret[1] >= 0

\* meta.json as it was before the run
InitialMeta == MetaFor(fs, chapters)

\* the chapters of at least MIN_CHAPTER_TEXT_LEN characters
LongChapters == {k \in 1..Len(chapters) : Len(chapters[k].text) >= MIN_CHAPTER_TEXT_LEN}

\* C8: a run that could load its inputs ends only after every candidate went
\* through the filter and every kept one through the matching loop; it ends
\* with exit status 1 exactly when no chapter was accepted, and then the
\* alignment data has no chapters table and meta.json is as it was
C8_OnlyZeroChaptersFails ==
    pc = "exited" =>
        /\ exit_status \in {Some(0), Some(1)}
        /\ (fs.book_dir /\ fs.chapters_file /\ fs.alignment_file) =>
             /\ fi = Len(chapters)
             /\ Len(filtered) = Cardinality(LongChapters)
             /\ ci = Len(filtered)
        /\ exit_status = Some(1) <=> mapped_chapters = <<>>
        /\ exit_status = Some(1) =>
             /\ alignment_chapters = None
             /\ meta = InitialMeta
        /\ exit_status = Some(0) =>
             /\ alignment_chapters = Some(mapped_chapters)
             /\ \A i \in 1..Len(mapped_chapters) :
                  "end_time" \in DOMAIN mapped_chapters[i]

\* a run of two candidates or more failed after its last one was rejected
C8_Witness ==
    /\ pc = "exited"
    /\ exit_status = Some(1)
    /\ Len(chapters) >= 2
    /\ Len(filtered) >= 1
    /\ Len(filtered) < Len(chapters)
    /\ report.kind = "no match"

\* C9: normalize applied to its own result returns it unchanged; every token
\* of extract_words is non-empty and made of a-z and 0-9 only, and the tokens
\* are, in order, the lower-cased letters and digits of the text's
\* whitespace-separated pieces, one token per piece that has any
C9_NormalizeIdempotent ==
    /\ pc = "norm:twice" => ret.twice = ret.once
    /\ pc = "norm:once" => \A k \in 1..Len(ret.once) : ret.once[k] \in AlnumChars
    /\ pc = "extract:done" =>
         LET text == call.word
             kept == {i \in 1..Len(text) : LowerChar(text[i]) \in AlnumChars}
             \* i and j lie in the same whitespace-separated piece
             SamePiece(i, j) == \A m \in i..j : text[m] \notin SpaceChars
             firsts == {i \in kept : \A j \in kept : j < i => ~SamePiece(j, i)}
             \* the token of the piece whose first kept character is at i
             TokenOf(i) ==
                 LET mine == {j \in kept : j >= i /\ SamePiece(i, j)}
                 IN  [k \in 1..Cardinality(mine) |-> LowerChar(text[Nth(mine, k)])]
         IN  /\ \A k \in 1..Len(ret) :
                  /\ ret[k] # <<>>
                  /\ \A m \in 1..Len(ret[k]) : ret[k][m] \in AlnumChars
             /\ Len(ret) = Cardinality(firsts)
             /\ \A k \in 1..Len(ret) : ret[k] = TokenOf(Nth(firsts, k))

\* a word with upper case and punctuation in it was normalized twice
C9_Witness ==
    /\ pc = "norm:twice"
    /\ ret.once # <<>>
    /\ ret.once # call.word
    /\ Len(ret.once) < Len(call.word)
    /\ \E k \in 1..Len(call.word) : call.word[k] = "A"

\* the candidate at hand is not accepted: too short a text, too few words,
\* no position or too low a score
NotAccepted ==
    \/ pc = "filter" /\ fi < Len(chapters)
                     /\ Len(At(chapters, fi).text) < MIN_CHAPTER_TEXT_LEN
    \/ pc = "tokenized" /\ Len(chapter_words) < 3
    \/ pc = "matched" /\ ~AtThreshold

\* C10: search_from starts at 0 and changes only when a chapter is accepted,
\* to the accepted position + 1; a filtered, skipped or rejected candidate
\* leaves search_from and the committed spans as they are; search_from never
\* decreases
C10_FloorOnlyAdvancesOnAccept ==
    /\ search_from = 0
    /\ [][/\ search_from' # search_from =>
               /\ pc = "matched"
               /\ AtThreshold
               /\ search_from' = word_idx + 1
          /\ NotAccepted => /\ search_from' = search_from
                            /\ mapped_chapters' = mapped_chapters
          /\ search_from' >= search_from]_vars

\* a match below the threshold was rejected above a floor that had advanced
C10_Witness ==
    /\ pc = "match"
    /\ report.kind = "no match"
    /\ search_from > 0
    /\ word_idx >= search_from
    /\ Len(mapped_chapters) >= 1

(***************************************************************************)
(* A finished call of find_chapter_start, its window size and the          *)
(* positions its loop scanned.                                             *)
(***************************************************************************)
CallDone == pc = "find:done"

CallN == Min(Len(call.chapter_words), MATCH_WINDOW)

CallScanned ==
    { i \in 0..Len(call.transcribed_words) :
        /\ i >= call.search_from
        /\ i < SearchEnd(call.transcribed_words, CallN, call.search_from,
                         call.search_limit) }

\* matches of the window at i of the call, in halves
CallMatches(i) ==
    WindowMatches(call.chapter_words, call.transcribed_words, i, CallN, 0)

\* the returned score against matches / n of a window (both in halves)
RetBelow(m) == ret[2].num * (2 * CallN) < m * ret[2].den

RetEquals(m) == ret[2].num * (2 * CallN) = m * ret[2].den

\* C11: find_chapter_start returns the greatest window score over the
\* scanned positions [search_from, search_end) and the smallest position
\* that attains it: no scanned window scores higher than the returned
\* score, none before the returned position scores as much, and the
\* returned position is a scanned one with exactly the returned score.
C11_MaxScoreEarliest ==
    (CallDone /\ CallN >= 3) =>
        /\ \A i \in CallScanned :
              LET m == CallMatches(i)
              IN  /\ ~RetBelow(m)
                  /\ i < ret[1] => ~RetEquals(m)
        /\ ret[1] >= 0 => ret[1] \in CallScanned /\ RetEquals(CallMatches(ret[1]))
        /\ ret[1] < 0 => ret = <<-1, ScoreZero>>

\* a call in which a lower, non-zero score comes before the returned
\* position and an equal one after it
C11_Witness ==
    /\ CallDone
    /\ CallN >= 3
    /\ ret[1] >= 0
    /\ \E i \in CallScanned :
          i < ret[1] /\ CallMatches(i) > 0 /\ ~RetEquals(CallMatches(i))
    /\ \E i \in CallScanned : i > ret[1] /\ RetEquals(CallMatches(i))

\* C12: find_chapter_start reports no match as the value (-1, 0.0): for a
\* target of fewer than 3 words, for an empty range [search_from,
\* search_end) and when every scanned window scores 0 (any other result
\* comes with a scanned window of a score above 0).  Every word it reads
\* is inside the transcript, the position is -1 exactly when the score is
\* 0, and a position >= 0 comes with a score in (0, 1].
C12_NoMatchIsAValue ==
    CallDone =>
        /\ (CallN < 3 \/ CallScanned = {}) => ret = <<-1, ScoreZero>>
        /\ ret # <<-1, ScoreZero>> => \E i \in CallScanned : CallMatches(i) > 0
        /\ CallN >= 3 =>
              \A i \in CallScanned : \A j \in 0..(CallN - 1) :
                  i + j < Len(call.transcribed_words)
        /\ ret[1] >= -1
        /\ (ret[1] = -1) <=> (ret[2].num = 0)
        /\ ret[1] >= 0 => 0 < ret[2].num /\ ret[2].num <= ret[2].den

\* a target of 3 words scanned over at least one window, none of which
\* shares a word with it
C12_Witness ==
    /\ CallDone
    /\ CallN >= 3
    /\ CallScanned # {}
    /\ \A i \in CallScanned : CallMatches(i) = 0
    /\ ret = <<-1, ScoreZero>>

\* transcript lengths around the floor of the search limit, where
\* max(remaining, 50000) is the one or the other, and floors within them
LongLengths ==
    { SEARCH_LIMIT_FLOOR - 1, SEARCH_LIMIT_FLOOR, SEARCH_LIMIT_FLOOR + 1,
      2 * SEARCH_LIMIT_FLOOR }

FloorsOf(nwords) == { 0, 1, nwords - SEARCH_LIMIT_FLOOR + 1, nwords - 3 }

Texts ==
    TextChoices \cup UNION { {s.chapters[k].text : k \in DOMAIN s.chapters} : s \in Scenarios }

\* extract_words of each of them
ExtractedWords == [t \in Texts |-> extract_words(t)]

\* lines 131-178 from the chapter at k on, with the floor and the spans so far
RECURSIVE Sequenced(_, _, _, _)
Sequenced(chs, k, sfrom, spans) ==
    IF k >= Len(chs) THEN spans
    ELSE LET ch == At(chs, k)
             cw == ExtractedWords[ch.text]
         IN  IF ~LongEnough(ch.text) \/ Len(cw) < 3
             THEN Sequenced(chs, k + 1, sfrom, spans)
             ELSE LET r == find_chapter_start(cw, words, sfrom,
                               Some(SearchLimitOf(Len(words), sfrom)))
                  IN  IF Accepts(r[1], r[2])
                      THEN Sequenced(chs, k + 1, NextFloor(r[1]),
                               Append(spans,
                                   [title |-> ch.title,
                                    start_time |-> Round3(At(At(words, r[1]), 1)),
                                    start_word_index |-> r[1]]))
                      ELSE Sequenced(chs, k + 1, sfrom, spans)

\* lines 131-193
SpansOf(chs) ==
    LET m == Sequenced(chs, 0, 0, <<>>)
    IN  [i \in 1..Len(m) |-> Finalized(m, i)]

\* the chapters of the run that have a span, in document order
AcceptedChapters ==
    SelectSeq(chapters,
              LAMBDA ch : \E i \in 1..Len(mapped_chapters) :
                              mapped_chapters[i].title = ch.title)

\* 1-based position in the chapter list of the chapter of the span at i
ChapterOfSpan(i) ==
    CHOOSE k \in 1..Len(chapters) : chapters[k].title = mapped_chapters[i].title

\* the matching loop is over
LoopDone == pc = "match" /\ ci = Len(filtered)

\* C14: candidates that are not accepted have no influence: the spans of
\* the run are those of a run on the chapter list with every filtered,
\* skipped and rejected candidate removed (before and after the finalizer),
\* and they are what is written to the alignment file;
\* the titles of the spans are a subsequence of the chapter list in
\* document order with no chapter twice; and the matcher is called at most
\* once for each candidate.
C14_NonAcceptedHaveNoInfluence ==
    /\ [](LoopDone => mapped_chapters = Sequenced(AcceptedChapters, 0, 0, <<>>))
    /\ [](pc = "write" =>
            LET reduced == SpansOf(AcceptedChapters)
            IN  /\ mapped_chapters = reduced
                /\ SpansOf(chapters) = reduced
                /\ Len(AcceptedChapters) = Len(mapped_chapters))
    /\ [](pc \in {"meta", "exited"} /\ Finalised =>
            alignment_chapters = Some(mapped_chapters))
    /\ []((LoopDone \/ Finalised) =>
            /\ \A i \in 1..Len(mapped_chapters) :
                  \E k \in 1..Len(chapters) : chapters[k].title = mapped_chapters[i].title
            /\ \A i, j \in 1..Len(mapped_chapters) :
                  i < j => ChapterOfSpan(i) < ChapterOfSpan(j))
    /\ [][/\ pc' = "matched" => pc = "tokenized" /\ ci' = ci
          /\ pc = "matched" => pc' = "match" /\ ci' = ci + 1
          /\ pc \in {"match", "tokenized", "matched"} => ci' >= ci]_vars

\* a finished run with two spans whose list held, before the chapter of the
\* last span, a chapter too short, one of too few words, and one whose best
\* window lies above the floor but scores too low
C14_Witness ==
    /\ Finalised
    /\ Len(mapped_chapters) = 2
    /\ \E a, b, c \in 1..Len(chapters) :
          /\ a < ChapterOfSpan(2) /\ b < ChapterOfSpan(2) /\ c < ChapterOfSpan(2)
          /\ ~LongEnough(chapters[a].text)
          /\ LongEnough(chapters[b].text)
          /\ Len(extract_words(chapters[b].text)) < 3
          /\ LongEnough(chapters[c].text)
          /\ LET cw == extract_words(chapters[c].text)
                 r == find_chapter_start(cw, words, mapped_chapters[1].start_word_index + 1,
                                         None)
             IN  /\ Len(cw) >= 3
                 /\ ChapterOfSpan(1) < c
                 /\ r[1] >= mapped_chapters[2].start_word_index
                 /\ ~Accepts(r[1], r[2])

\* C15: an accepted position p lies between the floor search_from of its
\* call and len(words) - n - 1, with n = min(len(chapter_words), 15) >= 3,
\* so the n words of its window are words of the transcript; and every
\* finalized span, the last one included, has start_word_index <
\* end_word_index, so no span is empty.
C15_AcceptedInBounds ==
    /\ (pc = "matched" /\ Accepts(word_idx, score)) =>
          LET n == Min(Len(chapter_words), MATCH_WINDOW)
          IN  /\ n >= 3
              /\ search_from <= word_idx
              /\ word_idx <= Len(words) - n - 1
              /\ \A j \in 0..(n - 1) : word_idx + j + 1 \in DOMAIN words
    /\ Finalised =>
          \A i \in 1..Len(mapped_chapters) :
              /\ mapped_chapters[i].start_word_index < mapped_chapters[i].end_word_index
              /\ mapped_chapters[i].start_word_index >= 0
              /\ mapped_chapters[i].end_word_index <= Len(words)

\* a finished run whose second span starts on the word after the first
\* one's and at the last position the scan reaches
C15_Witness ==
    /\ Finalised
    /\ Len(mapped_chapters) >= 2
    /\ mapped_chapters[2].start_word_index = mapped_chapters[1].start_word_index + 1
    /\ mapped_chapters[Len(mapped_chapters)].start_word_index
          = Len(words) - Min(Len(chapter_words), MATCH_WINDOW) - 1
    /\ mapped_chapters[1].end_word_index = mapped_chapters[1].start_word_index + 1

====
